---- MODULE Spec2Model ----
(***************************************************************************)
(* Model of the self-evaluation pipeline of prac_feedback_agent:           *)
(*   agent/orchestrator/pipeline.py  SelfEvaluationPipeline.run            *)
(*   agent/crews/evaluation.py       EvaluationCrew                        *)
(*   agent/crews/generation.py       GenerationCrew                        *)
(*   agent/storage/repository.py     FileRepository                        *)
(*                                                                         *)
(* Texts are sequences of word tokens; the Python substring test           *)
(* `word in text` is membership of the token in the sequence.  A Python    *)
(* list that several dicts refer to (a draft's action_plan) lives in       *)
(* `heap`, and drafts hold its index, so that in-place mutation through    *)
(* one draft is visible through every draft sharing the list.              *)
(***************************************************************************)
EXTENDS Integers, Sequences, FiniteSets, TLC

\* ---------------------------------------------------------------- bounds
MaxN == 2          \* largest max_iterations explored
MaxGoals == 2      \* longest run of distinct persona goals explored
MaxItems == 2      \* longest action plan handed directly to a crew
MaxRuns == 2       \* runs executing concurrently against one FileRepository
MaxTicks == 2      \* seconds the clock advances while they execute

\* ------------------------------------------------------- program constants
ActionabilityBound == 75      \* evaluation.py:35
PersonalizationBound == 70    \* evaluation.py:38
LocalConfidence == 82         \* evaluation.py:54  (0.82, in hundredths)
PlanGoalLimit == 3            \* generation.py:108 (base_goals[:3])

\* ------------------------------------------------------------------ texts
Range(s) == {s[i] : i \in DOMAIN s}

\* Python `word in text` for a single word
Contains(text, word) == word \in Range(text)

\* Python `sub in text` for a text (contiguous tokens)
ContainsText(text, sub) ==
    \E i \in 0..(Len(text) - Len(sub)) : SubSeq(text, i + 1, i + Len(sub)) = sub

Min(a, b) == IF a <= b THEN a ELSE b

\* Python int(p / q) for p >= 0, q > 0
FloorDiv(p, q) == p \div q

\* Python round(p / q) for p >= 0, q > 0: nearest integer, ties to even
RoundDivFloor(p, q) == p \div q

RoundDiv(p, q) ==
    LET f == p \div q
        r == p - f * q
    IN  IF 2 * r < q THEN f
        ELSE IF 2 * r > q THEN f + 1
        ELSE IF f % 2 = 0 THEN f ELSE f + 1

\* sum of f[x] over a finite set
RECURSIVE SumOver(_, _)
SumOver(f, S) ==
    IF S = {} THEN 0
    ELSE LET x == CHOOSE y \in S : TRUE IN f[x] + SumOver(f, S \ {x})

\* ---------------------------------------------------------------- schema
DEFAULT_MUST_INCLUDE ==
    <<"summary", "strengths", "growth_areas", "action_plan", "reflection_questions">>

DraftKeys ==
    {"topic", "summary", "strengths", "growth_areas", "action_plan",
     "reflection_questions", "tone_check"}

Criteria ==
    {"relevance", "personalization", "actionability", "safety", "guideline_adherence"}

ReviewKeys ==
    {"overall_score", "pass", "criterion_scores", "major_issues", "minor_issues",
     "revision_instructions", "confidence"}

\* issue and instruction texts of EvaluationCrew.evaluate
MajorActionability == "Action plan lacks enough measurable steps"
MinorPersonalization == "Draft could be more personalized to user context"
MajorCrisis == "Safety escalation required for crisis language"

AddMetricsInstruction == <<"add", "concrete", "success", "metric">>
PersonalizeInstruction == <<"personal", "summary", "persona", "context">>
CrisisInstruction == <<"add", "crisis-support", "escalation", "language">>

RevisionMarker == "(revised)"
DefaultTrackingMetric == <<"track", "progress", "weekly">>
HeuristicMetric == <<"complete", "3", "sessions">>
HeuristicRationale == <<"time-blocking", "improves", "consistency">>
NormalizedRationale == <<"build", "consistency">>
NormalizedMetric == <<"track", "completion", "rate">>
NormalizedAction == <<"complete", "one", "step">>
ThisWeek == <<"this", "week">>

\* -------------------------------------------------------------- EvaluationCrew
\* A draft is [present, topic, summary, plan]: the keys the dict has, its topic
\* and summary texts, and the index in the heap of its action_plan list.
\* An action item is [action, rationale, time_horizon, success_metric].

PlanOf(draft, hp) ==
    IF "action_plan" \in draft.present THEN hp[draft.plan] ELSE <<>>

\* every text a draft carries, for `str(v) for v in draft.values()`
DraftWords(draft, hp) ==
    (IF "summary" \in draft.present THEN Range(draft.summary) ELSE {})
    \cup UNION {Range(PlanOf(draft, hp)[i].action) : i \in DOMAIN PlanOf(draft, hp)}

\* Python truthiness of draft.get(key)
FieldTruthy(draft, hp, key) ==
    /\ key \in draft.present
    /\ key = "summary" => draft.summary # <<>>
    /\ key = "action_plan" => hp[draft.plan] # <<>>

_score_relevance(draft, input_packet) ==
    LET topic == input_packet.topic
        firstTwo == SubSeq(topic, 1, Min(2, Len(topic)))
    IN  IF \E i \in DOMAIN firstTwo : Contains(draft.summary, firstTwo[i])
        THEN 90 ELSE 70

_score_personalization(draft, hp, input_packet) ==
    LET goals == input_packet.goals
        plan == hp[draft.plan]
        matched == Cardinality({g \in DOMAIN goals :
                       \E a \in DOMAIN plan : Contains(plan[a].action, goals[g][1])})
    IN  IF goals = <<>> THEN 70 ELSE Min(95, 65 + matched * 10)

_score_actionability_rounded(draft, hp) ==
    LET actions == PlanOf(draft, hp)
        with_metrics == Cardinality({a \in DOMAIN actions : actions[a].success_metric # <<>>})
    IN  IF actions = <<>> THEN 30
        ELSE Min(95, 60 + RoundDiv(35 * with_metrics, Len(actions)))

_score_actionability(draft, hp) ==
    LET actions == PlanOf(draft, hp)
        with_metrics == Cardinality({a \in DOMAIN actions : actions[a].success_metric # <<>>})
    IN  IF actions = <<>> THEN 30
        ELSE Min(95, 60 + FloorDiv(35 * with_metrics, Len(actions)))

_score_safety(draft, hp, input_packet) ==
    IF Contains(input_packet.risk_flags, "crisis_language") THEN 60
    ELSE IF "diagnosis" \in DraftWords(draft, hp) THEN 50
    ELSE 90

_score_guideline_adherence(draft, hp, input_packet) ==
    LET must_include == input_packet.must_include
        present == Cardinality({k \in DOMAIN must_include :
                        FieldTruthy(draft, hp, must_include[k])})
    IN  RoundDiv(present * 100, Len(must_include))

\* the local rubric raises where the Python raises: draft["summary"] and
\* draft["action_plan"] on a missing key, g.lower().split()[0] on a blank goal
\* (evaluated once per action item, so only when the plan is not empty)
LocalEvaluateRaises(draft, hp, input_packet) ==
    \/ "summary" \notin draft.present
    \/ /\ input_packet.goals # <<>>
       /\ \/ "action_plan" \notin draft.present
          \/ /\ hp[draft.plan] # <<>>
             /\ \E g \in DOMAIN input_packet.goals : input_packet.goals[g] = <<>>

Scores(draft, hp, input_packet) ==
    [relevance |-> _score_relevance(draft, input_packet),
     personalization |-> _score_personalization(draft, hp, input_packet),
     actionability |-> _score_actionability(draft, hp),
     safety |-> _score_safety(draft, hp, input_packet),
     guideline_adherence |-> _score_guideline_adherence(draft, hp, input_packet)]

PassedNoIssueCheck(overall, major_issues, input_packet) ==
    overall >= input_packet.pass_threshold

Passed(overall, major_issues, input_packet) ==
    overall >= input_packet.pass_threshold /\ major_issues = <<>>

LocalReviewMinorAsMajor(draft, hp, input_packet) ==
    LET scores == Scores(draft, hp, input_packet)
        overall == RoundDiv(SumOver(scores, Criteria), Cardinality(Criteria))
        lowAct == scores.actionability < ActionabilityBound
        lowPers == scores.personalization < PersonalizationBound
        crisis == /\ input_packet.risk_flags # <<>>
                  /\ Contains(input_packet.risk_flags, "crisis_language")
        major_issues == (IF lowAct THEN <<MajorActionability>> ELSE <<>>)
                        \o (IF lowPers THEN <<MinorPersonalization>> ELSE <<>>)
                        \o (IF crisis THEN <<MajorCrisis>> ELSE <<>>)
        revision_instructions ==
            (IF lowAct THEN <<AddMetricsInstruction>> ELSE <<>>)
            \o (IF lowPers THEN <<PersonalizeInstruction>> ELSE <<>>)
            \o (IF crisis THEN <<CrisisInstruction>> ELSE <<>>)
    IN  [path |-> "local",
         keys |-> ReviewKeys,
         overall_score |-> overall,
         pass |-> Passed(overall, major_issues, input_packet),
         criterion_scores |-> scores,
         major_issues |-> major_issues,
         minor_issues |-> <<>>,
         revision_instructions |-> revision_instructions,
         confidence |-> LocalConfidence]

\* the rubric path of EvaluationCrew.evaluate (lines 22-55), for a draft it does not raise on
LocalReview(draft, hp, input_packet) ==
    LET scores == Scores(draft, hp, input_packet)
        overall == RoundDiv(SumOver(scores, Criteria), Cardinality(Criteria))
        lowAct == scores.actionability < ActionabilityBound
        lowPers == scores.personalization < PersonalizationBound
        crisis == /\ input_packet.risk_flags # <<>>
                  /\ Contains(input_packet.risk_flags, "crisis_language")
        major_issues == (IF lowAct THEN <<MajorActionability>> ELSE <<>>)
                        \o (IF crisis THEN <<MajorCrisis>> ELSE <<>>)
        minor_issues == IF lowPers THEN <<MinorPersonalization>> ELSE <<>>
        revision_instructions ==
            (IF lowAct THEN <<AddMetricsInstruction>> ELSE <<>>)
            \o (IF lowPers THEN <<PersonalizeInstruction>> ELSE <<>>)
            \o (IF crisis THEN <<CrisisInstruction>> ELSE <<>>)
    IN  [path |-> "local",
         keys |-> ReviewKeys,
         overall_score |-> overall,
         pass |-> Passed(overall, major_issues, input_packet),
         criterion_scores |-> scores,
         major_issues |-> major_issues,
         minor_issues |-> minor_issues,
         revision_instructions |-> revision_instructions,
         confidence |-> LocalConfidence]

\* A backend reply is [ok, fenced, json, value]: complete() returned text (or
\* raised), the text is wrapped in a code fence, its body is JSON, and the
\* value that JSON denotes.  json.loads does not accept a fenced text.
JsonLoads(reply) == reply.ok /\ reply.json /\ ~reply.fenced

\* None, or what json.loads made of the reply
_llm_evaluate(llm, reply) ==
    IF llm /\ JsonLoads(reply) THEN [none |-> FALSE, value |-> reply.value]
    ELSE [none |-> TRUE, value |-> reply.value]

NoReview ==
    [path |-> "none", keys |-> {}, overall_score |-> 0, pass |-> FALSE,
     criterion_scores |-> [c \in Criteria |-> 0], major_issues |-> <<>>,
     minor_issues |-> <<>>, revision_instructions |-> <<>>, confidence |-> 0]

\* EvaluationCrew.evaluate: [raised, review]
evaluate(draft, hp, input_packet, llm, reply) ==
    LET llm_review == _llm_evaluate(llm, reply)
    IN  IF ~llm_review.none THEN [raised |-> FALSE, review |-> llm_review.value]
        ELSE IF LocalEvaluateRaises(draft, hp, input_packet)
             THEN [raised |-> TRUE, review |-> NoReview]
        ELSE [raised |-> FALSE, review |-> LocalReview(draft, hp, input_packet)]

\* -------------------------------------------------------------- GenerationCrew
Item(action, rationale, time_horizon, success_metric) ==
    [action |-> action, rationale |-> rationale,
     time_horizon |-> time_horizon, success_metric |-> success_metric]

_build_action_plan(topic, goals) ==
    LET base_goals == IF goals # <<>> THEN goals
                      ELSE << <<"make", "steady", "progress", "on">> \o topic >>
        firstGoals == SubSeq(base_goals, 1, Min(PlanGoalLimit, Len(base_goals)))
    IN  [i \in DOMAIN firstGoals |->
            Item(<<"schedule", "block", "for">> \o firstGoals[i],
                 HeuristicRationale, ThisWeek, HeuristicMetric)]

\* [draft, heap]: the draft and the heap holding its new action_plan list
_heuristic_generate(input_packet, hp) ==
    [draft |-> [present |-> DraftKeys,
                topic |-> input_packet.topic,
                summary |-> <<"here", "is", "a", input_packet.tone, "plan", "for">>
                            \o input_packet.topic,
                plan |-> Len(hp) + 1],
     heap |-> Append(hp, _build_action_plan(input_packet.topic, input_packet.goals))]

OrDefault(text, default) == IF text # <<>> THEN text ELSE default

NormalizeItemNoDefaults(item) ==
    IF item.t = "dict"
    THEN << Item(item.action, item.rationale, item.time_horizon, item.success_metric) >>
    ELSE << Item(item.text, NormalizedRationale, ThisWeek, NormalizedMetric) >>

\* one entry of a delegated action_plan, as the list of 0 or 1 items it becomes
NormalizeItem(item) ==
    IF item.t = "dict"
    THEN << Item(OrDefault(item.action, NormalizedAction),
                 OrDefault(item.rationale, NormalizedRationale),
                 OrDefault(item.time_horizon, ThisWeek),
                 OrDefault(item.success_metric, NormalizedMetric)) >>
    ELSE IF item.text # <<>>
         THEN << Item(item.text, NormalizedRationale, ThisWeek, NormalizedMetric) >>
         ELSE <<>>

RECURSIVE NormalizePlan(_)
NormalizePlan(entries) ==
    IF entries = <<>> THEN <<>>
    ELSE NormalizeItem(Head(entries)) \o NormalizePlan(Tail(entries))

\* a delegated draft is [present, topic, summary, ap]; ap is [t, items] with t
\* "list", "scalar" (one entry that is not a list) or "null" (missing or falsy)
_normalize_draft(jdraft, hp) ==
    LET action_plan == IF "action_plan" \in jdraft.present /\ jdraft.ap.t # "null"
                       THEN jdraft.ap.items ELSE <<>>
        normalized_plan == NormalizePlan(action_plan)
        topic == IF "topic" \in jdraft.present THEN jdraft.topic
                 ELSE <<"personal", "development">>
        final_plan == IF normalized_plan = <<>> THEN _build_action_plan(topic, <<>>)
                      ELSE normalized_plan
    IN  [draft |-> [present |-> jdraft.present \cup {"action_plan"},
                    topic |-> jdraft.topic,
                    summary |-> jdraft.summary,
                    plan |-> Len(hp) + 1],
         heap |-> Append(hp, final_plan)]

\* parse_json_object: the reply's JSON value, with or without a code fence
ParseJsonObject(reply) == reply.ok /\ reply.json

\* _llm_generate and _llm_revise: None unless a backend is set and its reply parses
LlmDraft(llm, reply) == llm /\ ParseJsonObject(reply)

\* GenerationCrew.generate: [draft, heap, path]
generate(input_packet, hp, llm, reply) ==
    IF LlmDraft(llm, reply)
    THEN LET n == _normalize_draft(reply.value, hp)
         IN  [draft |-> n.draft, heap |-> n.heap, path |-> "llm"]
    ELSE LET h == _heuristic_generate(input_packet, hp)
         IN  [draft |-> h.draft, heap |-> h.heap, path |-> "local"]

FillMetricsAgain(plan) ==
    [i \in DOMAIN plan |->
        [plan[i] EXCEPT !.success_metric = @ \o DefaultTrackingMetric]]

\* `for item in plan: if not item.get("success_metric"): item[...] = default`
FillMetrics(plan) ==
    [i \in DOMAIN plan |->
        IF plan[i].success_metric = <<>>
        THEN [plan[i] EXCEPT !.success_metric = DefaultTrackingMetric]
        ELSE plan[i]]

IsMetricInstruction(instruction) ==
    Contains(instruction, "metric") \/ Contains(instruction, "metrics")

IsPersonalInstruction(instruction) ==
    Contains(instruction, "personal") \/ Contains(instruction, "personalize")

\* the loop of revise over the instructions: [summary, plan] after all of them
RECURSIVE ApplyInstructions(_, _, _, _)
ApplyInstructions(instructions, summary, plan, input_packet) ==
    IF instructions = <<>> THEN [summary |-> summary, plan |-> plan]
    ELSE LET instruction == Head(instructions)
             plan1 == IF IsMetricInstruction(instruction) THEN FillMetrics(plan) ELSE plan
             context == input_packet.context
             summary1 == IF /\ IsPersonalInstruction(instruction)
                            /\ context # <<>>
                            /\ ~ContainsText(summary, context)
                         THEN summary \o <<"context", "considered">> \o context
                         ELSE summary
         IN  ApplyInstructions(Tail(instructions), summary1, plan1, input_packet)

\* the local merge raises on previous_draft["summary"] and revised["action_plan"]
LocalReviseRaises(previous_draft, revision_instructions) ==
    \/ "summary" \notin previous_draft.present
    \/ /\ "action_plan" \notin previous_draft.present
       /\ \E i \in DOMAIN revision_instructions :
              IsMetricInstruction(revision_instructions[i])

\* where the filled action items of the local merge are written: the list the
\* previous draft holds (dict(previous_draft) copies the keys, not the list)
RevisedPlanIndex(previous_draft, hp) == previous_draft.plan

LocalReviseDropsPlan(previous_draft, revision_instructions, input_packet, hp) ==
    LET at == RevisedPlanIndex(previous_draft, hp)
        hasPlan == "action_plan" \in previous_draft.present
        merged == ApplyInstructions(revision_instructions,
                                    Append(previous_draft.summary, RevisionMarker),
                                    <<>>,
                                    input_packet)
    IN  [draft |-> [previous_draft EXCEPT !.summary = merged.summary,
                                          !.plan = IF hasPlan THEN at ELSE @],
         heap |-> IF ~hasPlan THEN hp
                  ELSE IF at = Len(hp) + 1 THEN Append(hp, merged.plan)
                  ELSE [hp EXCEPT ![at] = merged.plan]]

LocalRevise(previous_draft, revision_instructions, input_packet, hp) ==
    LET at == RevisedPlanIndex(previous_draft, hp)
        hasPlan == "action_plan" \in previous_draft.present
        merged == ApplyInstructions(revision_instructions,
                                    Append(previous_draft.summary, RevisionMarker),
                                    IF hasPlan THEN hp[previous_draft.plan] ELSE <<>>,
                                    input_packet)
    IN  [draft |-> [previous_draft EXCEPT !.summary = merged.summary,
                                          !.plan = IF hasPlan THEN at ELSE @],
         heap |-> IF ~hasPlan THEN hp
                  ELSE IF at = Len(hp) + 1 THEN Append(hp, merged.plan)
                  ELSE [hp EXCEPT ![at] = merged.plan]]

\* GenerationCrew.revise: [raised, draft, heap, path]
revise(previous_draft, revision_instructions, input_packet, hp, llm, reply) ==
    IF LlmDraft(llm, reply)
    THEN LET n == _normalize_draft(reply.value, hp)
         IN  [raised |-> FALSE, draft |-> n.draft, heap |-> n.heap, path |-> "llm"]
    ELSE IF LocalReviseRaises(previous_draft, revision_instructions)
         THEN [raised |-> TRUE, draft |-> previous_draft, heap |-> hp, path |-> "local"]
    ELSE LET r == LocalRevise(previous_draft, revision_instructions, input_packet, hp)
         IN  [raised |-> FALSE, draft |-> r.draft, heap |-> r.heap, path |-> "local"]

\* ------------------------------------------------------------------ inputs
GoalNames == <<"g1", "g2", "g3", "g4", "g5", "g6">>

\* persona goal lists: the first k distinct one-word goals, and a blank goal
GoalLists ==
    {[i \in 1..k |-> <<GoalNames[i]>>] : k \in 0..MaxGoals} \cup {<< <<>> >>}

Topic == <<"improve", "focus">>

Packet(goals, context, must_include, pass_threshold, risk_flags) ==
    [topic |-> Topic, goals |-> goals, context |-> context, tone |-> "supportive",
     must_include |-> must_include, pass_threshold |-> pass_threshold,
     risk_flags |-> risk_flags]

\* request contexts that InputPacket.validate admits
Contexts ==
    {Packet(g, c, m, t, r) :
        g \in GoalLists,
        c \in {<<>>, <<"parent">>},
        m \in {DEFAULT_MUST_INCLUDE, DEFAULT_MUST_INCLUDE \o <<"notes">>},
        t \in {80, 90},
        r \in {<<"none">>, <<"crisis_language">>}}

RunContexts ==
    {p \in Contexts : p.must_include = DEFAULT_MUST_INCLUDE}

\* backend replies
Reply(ok, fenced, json, value) ==
    [ok |-> ok, fenced |-> fenced, json |-> json, value |-> value]

JDict(action, success_metric) ==
    [t |-> "dict", action |-> action, rationale |-> <<>>, time_horizon |-> <<>>,
     success_metric |-> success_metric, text |-> <<>>]

JText(text) ==
    [t |-> "str", action |-> <<>>, rationale |-> <<>>, time_horizon |-> <<>>,
     success_metric |-> <<>>, text |-> text]

JDraft(present, summary, ap) ==
    [present |-> present, topic |-> Topic, summary |-> summary, ap |-> ap]

GoodJDraft ==
    JDraft(DraftKeys, <<"llm", "generated", "draft">>,
           [t |-> "list", items |-> << JDict(<<"practice", "updates">>, <<"deliver", "3">>) >>])

StringPlanJDraft ==
    JDraft(DraftKeys, <<"llm", "focus", "draft">>,
           [t |-> "scalar", items |-> << JText(<<"practice", "g1">>) >>])

NoMetricJDraft ==
    JDraft(DraftKeys, <<"llm", "generated", "draft">>,
           [t |-> "list", items |-> << JDict(<<"practice", "updates">>, <<>>), JText(<<>>) >>])

EmptyJDraft == JDraft({}, <<>>, [t |-> "null", items |-> <<>>])

EmptyPlanJDraft ==
    JDraft(DraftKeys, <<"llm", "generated", "draft">>, [t |-> "list", items |-> <<>>])

Unreachable(value) == Reply(FALSE, FALSE, FALSE, value)
NotJson(value) == Reply(TRUE, FALSE, FALSE, value)

DraftReplies ==
    {Unreachable(EmptyJDraft), NotJson(EmptyJDraft), Reply(TRUE, TRUE, TRUE, GoodJDraft)}
    \cup {Reply(TRUE, FALSE, TRUE, v) :
            v \in {StringPlanJDraft, NoMetricJDraft, EmptyJDraft, EmptyPlanJDraft}}

SecondDraftReplies ==
    {Unreachable(EmptyJDraft), Reply(TRUE, FALSE, TRUE, NoMetricJDraft)}

RunDraftReplies ==
    {Unreachable(EmptyJDraft)}
    \cup {Reply(TRUE, FALSE, TRUE, v) : v \in {GoodJDraft, EmptyJDraft}}

JReview(keys, pass, overall, major_issues, revision_instructions) ==
    [path |-> "llm", keys |-> keys, overall_score |-> overall, pass |-> pass,
     criterion_scores |-> [c \in Criteria |-> overall],
     major_issues |-> major_issues, minor_issues |-> <<>>,
     revision_instructions |-> revision_instructions, confidence |-> 90]

PassJReview == JReview(ReviewKeys, TRUE, 88, <<>>, <<>>)
FailJReview == JReview(ReviewKeys, FALSE, 40, <<"Too vague">>, <<AddMetricsInstruction>>)
EmptyJReview == JReview({}, FALSE, 0, <<>>, <<>>)

ReviewReplies ==
    {Unreachable(EmptyJReview), NotJson(EmptyJReview), Reply(TRUE, TRUE, TRUE, PassJReview)}
    \cup {Reply(TRUE, FALSE, TRUE, v) : v \in {PassJReview, FailJReview, EmptyJReview}}

RunReviewReplies ==
    {Unreachable(EmptyJReview)}
    \cup {Reply(TRUE, FALSE, TRUE, v) : v \in {PassJReview, FailJReview, EmptyJReview}}

\* ------------------------------------------------- SelfEvaluationPipeline.run
VARIABLES
    input_packet,     \* the request context of the run or call
    max_iterations,   \* PipelineConfig.max_iterations
    gen_llm,          \* GenerationCrew.llm_client is set
    eval_llm,         \* EvaluationCrew.llm_client is set
    pc,               \* position of run
    iteration,        \* state["iteration"]
    history,          \* state["history"]
    draft,            \* the local `draft` of run
    heap,             \* the action_plan lists, by index
    final,            \* state["final"]: [status, final_output, final_review]
    status,           \* state["status"]
    result,           \* what run returned
    error,            \* the exception that left run, or "none"
    runs,             \* what save_run was handed, one entry per call
    finals,           \* what save_final was handed, one entry per call
    ops,              \* the crew and store calls made so far, in order
    stage,            \* position of a direct caller of the crews
    given,            \* the draft a direct caller hands to a crew
    instructions,     \* the revision instructions a direct caller hands to revise
    before,           \* the heap when the direct call was made
    got,              \* what the direct call returned
    first,            \* what the first of two revise calls returned
    replied,          \* the backend reply the direct call received, if any
    completions,      \* llm_client.complete calls made so far
    now,              \* datetime.utcnow(), in whole seconds
    run_files,        \* base_dir/run_<stamp>.json, by stamp
    final_files,      \* base_dir/final/final_<stamp>.json, by stamp
    workers           \* the concurrent runs: each one's position, counter, history, status

runVars == <<max_iterations, pc, iteration, history, draft, final, status, result,
             error, runs, finals, ops>>
crewVars == <<stage, given, instructions, before, got, first, replied>>
storeVars == <<now, run_files, final_files, workers>>
vars == <<input_packet, gen_llm, eval_llm, heap, completions, runVars, crewVars, storeVars>>

\* the runs that share a repository, and the file names a stamp can give
Runs == 1..MaxRuns
Stamps == 0..MaxTicks

\* a file that does not exist; `owner` of a file is the run that wrote it
Absent == [owner |-> 0, status |-> "none", history |-> <<>>]
NoFiles == [s \in Stamps |-> Absent]

Worker(at, i, h, st) == [pc |-> at, iteration |-> i, history |-> h, status |-> st]

\* no concurrent run is under way and the repository directory is empty
StoreUntouched ==
    /\ now = 0
    /\ run_files = NoFiles
    /\ final_files = NoFiles
    /\ workers = [r \in Runs |-> Worker("idle", 0, <<>>, "none")]

NoDraft == [present |-> {}, topic |-> <<>>, summary |-> <<>>, plan |-> 0]
NoFinal == [status |-> "none", final_output |-> NoDraft, final_review |-> NoReview]
NoCall ==
    [op |-> "none", path |-> "none", raised |-> FALSE, draft |-> NoDraft,
     review |-> NoReview]

\* no backend is set, so no reply is received
NoReply == [ok |-> FALSE, fenced |-> FALSE, json |-> FALSE, value |-> "none"]

\* the complete() calls one crew call makes: _llm_evaluate, _llm_generate and
\* _llm_revise call the backend once when one is set, and never again
CompletionsRetrying(llm) == IF llm THEN 2 ELSE 0

Completions(llm) == IF llm THEN 1 ELSE 0

Budgets == (-1)..MaxN

Init ==
    /\ input_packet \in RunContexts
    /\ max_iterations \in Budgets
    /\ gen_llm \in BOOLEAN
    /\ eval_llm \in BOOLEAN
    /\ pc = "GENERATING"
    /\ iteration = 0
    /\ history = <<>>
    /\ draft = NoDraft
    /\ heap = <<>>
    /\ final = NoFinal
    /\ status = "none"
    /\ result = NoFinal
    /\ error = "none"
    /\ runs = <<>>
    /\ finals = <<>>
    /\ ops = <<>>
    /\ stage = "idle"
    /\ given = NoDraft
    /\ instructions = <<>>
    /\ before = <<>>
    /\ got = NoCall
    /\ first = NoCall
    /\ replied = NoReply
    /\ completions = 0
    /\ StoreUntouched

\* the while test of line 40, taken with the counter value i
LoopTest(i) == IF i < max_iterations THEN "EVALUATING" ELSE "FALLBACK"

Raise(exception) ==
    /\ pc' = "raised"
    /\ error' = exception

\* line 38
Generate ==
    /\ pc = "GENERATING"
    /\ \E reply \in RunDraftReplies :
         LET g == generate(input_packet, heap, gen_llm, reply)
         IN  /\ draft' = g.draft
             /\ heap' = g.heap
    /\ ops' = Append(ops, "generate")
    /\ completions' = completions + Completions(gen_llm)
    /\ pc' = LoopTest(iteration)
    /\ UNCHANGED <<input_packet, max_iterations, gen_llm, eval_llm, iteration, history,
                   final, status, result, error, runs, finals, crewVars, storeVars>>

\* lines 41-60: evaluate, record, and finish when the review passes
Evaluate ==
    /\ pc = "EVALUATING"
    /\ ops' = Append(ops, "evaluate")
    /\ completions' = completions + Completions(eval_llm)
    /\ \E reply \in RunReviewReplies :
         LET e == evaluate(draft, heap, input_packet, eval_llm, reply)
             review == e.review
         IN  IF e.raised
             THEN /\ Raise("evaluate")
                  /\ UNCHANGED <<history, final, status>>
             ELSE /\ history' = Append(history, [iteration |-> iteration,
                                                 draft |-> draft,
                                                 review |-> review])
                  /\ IF "pass" \notin review.keys
                     THEN /\ Raise("KeyError: pass")
                          /\ UNCHANGED <<final, status>>
                     ELSE IF review.pass
                     THEN /\ final' = [status |-> "validated",
                                       final_output |-> draft,
                                       final_review |-> review]
                          /\ status' = "validated"
                          /\ pc' = "VALIDATED"
                          /\ UNCHANGED error
                     ELSE /\ pc' = "REVISING"
                          /\ UNCHANGED <<final, status, error>>
    /\ UNCHANGED <<input_packet, max_iterations, gen_llm, eval_llm, iteration, draft,
                   heap, result, runs, finals, crewVars, storeVars>>

\* lines 62-67, and the while test that follows
Revise ==
    /\ pc = "REVISING"
    /\ LET review == history[Len(history)].review
       IN  IF "revision_instructions" \notin review.keys
           THEN /\ Raise("KeyError: revision_instructions")
                /\ UNCHANGED <<draft, heap, iteration, ops, completions>>
           ELSE \E reply \in RunDraftReplies :
                  LET r == revise(draft, review.revision_instructions, input_packet,
                                  heap, gen_llm, reply)
                  IN  /\ ops' = Append(ops, "revise")
                      /\ completions' = completions + Completions(gen_llm)
                      /\ IF r.raised
                         THEN /\ Raise("revise")
                              /\ UNCHANGED <<draft, heap, iteration>>
                         ELSE /\ draft' = r.draft
                              /\ heap' = r.heap
                              /\ iteration' = iteration + 1
                              /\ pc' = LoopTest(iteration + 1)
                              /\ UNCHANGED error
    /\ UNCHANGED <<input_packet, max_iterations, gen_llm, eval_llm, history, final,
                   status, result, runs, finals, crewVars, storeVars>>

FirstRecord(h) == h[1]

\* line 69: best = state["history"][-1]
LastRecord(h) == h[Len(h)]

\* lines 69-76
Fallback ==
    /\ pc = "FALLBACK"
    /\ IF history = <<>>
       THEN /\ Raise("IndexError: history")
            /\ UNCHANGED <<final, status>>
       ELSE LET best == LastRecord(history)
            IN  /\ final' = [status |-> "max_iterations_reached",
                             final_output |-> best.draft,
                             final_review |-> best.review]
                /\ status' = "max_iterations_reached"
                /\ pc' = "EXHAUSTED"
                /\ UNCHANGED error
    /\ UNCHANGED <<input_packet, max_iterations, gen_llm, eval_llm, iteration, history,
                   draft, heap, result, runs, finals, ops, completions, crewVars, storeVars>>

\* lines 58 and 77: repository.save_run(state) writes the file
SaveRun ==
    /\ pc \in {"VALIDATED", "EXHAUSTED"}
    /\ runs' = Append(runs, [iteration |-> iteration, history |-> history,
                             final |-> final, status |-> status])
    /\ ops' = Append(ops, "save_run")
    /\ pc' = "SAVE_FINAL"
    /\ UNCHANGED <<input_packet, max_iterations, gen_llm, eval_llm, iteration, history,
                   draft, heap, final, status, result, error, finals, completions, crewVars, storeVars>>

\* repository.save_run raises (mkdir or write_text fails); run has no handler
SaveRunFails ==
    /\ pc \in {"VALIDATED", "EXHAUSTED"}
    /\ ops' = Append(ops, "save_run")
    /\ Raise("OSError: save_run")
    /\ UNCHANGED <<input_packet, max_iterations, gen_llm, eval_llm, iteration, history,
                   draft, heap, final, status, result, runs, finals, completions, crewVars, storeVars>>

\* lines 59-60 and 78-79: repository.save_final(final), then return
SaveFinal ==
    /\ pc = "SAVE_FINAL"
    /\ finals' = Append(finals, final)
    /\ ops' = Append(ops, "save_final")
    /\ result' = final
    /\ pc' = "returned"
    /\ UNCHANGED <<input_packet, max_iterations, gen_llm, eval_llm, iteration, history,
                   draft, heap, final, status, error, runs, completions, crewVars, storeVars>>

SaveFinalFails ==
    /\ pc = "SAVE_FINAL"
    /\ ops' = Append(ops, "save_final")
    /\ Raise("OSError: save_final")
    /\ UNCHANGED <<input_packet, max_iterations, gen_llm, eval_llm, iteration, history,
                   draft, heap, final, status, result, runs, finals, completions, crewVars, storeVars>>

Next ==
    \/ Generate
    \/ Evaluate
    \/ Revise
    \/ Fallback
    \/ SaveRun
    \/ SaveRunFails
    \/ SaveFinal
    \/ SaveFinalFails

Spec == Init /\ [][Next]_vars

\* ------------------------------------------------ direct calls of the crews
\* action items a caller may hand over: the action names goal g1 or not, and
\* the success metric is filled or empty
GivenItems ==
    {Item(a, HeuristicRationale, ThisWeek, m) :
        a \in {<<"schedule", "g1">>, <<"rest">>},
        m \in {<<>>, HeuristicMetric}}

RECURSIVE SeqsUpTo(_, _)
SeqsUpTo(S, n) ==
    IF n = 0 THEN {<<>>}
    ELSE LET shorter == SeqsUpTo(S, n - 1)
         IN  shorter \cup {Append(q, x) : q \in {t \in shorter : Len(t) = n - 1}, x \in S}

GivenPlans == SeqsUpTo(GivenItems, MaxItems)

GivenDraft(present, summary) ==
    [present |-> present, topic |-> Topic, summary |-> summary, plan |-> 1]

\* [draft, plan]: well-formed drafts over every plan, and drafts that lack a key
GivenDrafts ==
    {[draft |-> GivenDraft(DraftKeys, <<"plan", "for", "improve">>), plan |-> p] :
        p \in GivenPlans}
    \cup {[draft |-> GivenDraft(DraftKeys, s),
           plan |-> << Item(<<"schedule", "g1">>, HeuristicRationale, ThisWeek,
                            HeuristicMetric) >>] :
            s \in {<<"a", "diagnosis">>, <<"unrelated">>}}
    \cup {[draft |-> GivenDraft(DraftKeys \ {k}, <<"plan", "for", "focus">>),
           plan |-> << Item(<<"rest">>, HeuristicRationale, ThisWeek, <<>>) >>] :
            k \in {"summary", "action_plan", "strengths"}}

InstructionLists ==
    {<<>>, <<AddMetricsInstruction>>, <<PersonalizeInstruction>>,
     <<CrisisInstruction>>, <<AddMetricsInstruction, PersonalizeInstruction>>}

\* the value of a draft: its fields, with the action_plan list it refers to
Deep(d, hp) ==
    [present |-> d.present, topic |-> d.topic, summary |-> d.summary,
     action_plan |-> PlanOf(d, hp)]

InitCrew ==
    /\ input_packet \in Contexts
    /\ \E g \in GivenDrafts :
         /\ given = g.draft
         /\ heap = <<g.plan>>
    /\ max_iterations = 0
    /\ gen_llm = FALSE
    /\ eval_llm = FALSE
    /\ pc = "idle"
    /\ iteration = 0
    /\ history = <<>>
    /\ draft = NoDraft
    /\ final = NoFinal
    /\ status = "none"
    /\ result = NoFinal
    /\ error = "none"
    /\ runs = <<>>
    /\ finals = <<>>
    /\ ops = <<>>
    /\ stage = "init"
    /\ instructions = <<>>
    /\ before = <<>>
    /\ got = NoCall
    /\ first = NoCall
    /\ replied = NoReply
    /\ completions = 0
    /\ StoreUntouched

\* EvaluationCrew(llm_client).evaluate(given, input_packet)
CallEvaluate ==
    /\ stage = "init"
    /\ \E llm \in BOOLEAN, reply \in ReviewReplies :
         LET e == evaluate(given, heap, input_packet, llm, reply)
         IN  /\ eval_llm' = llm
             /\ replied' = IF llm THEN reply ELSE NoReply
             /\ completions' = completions + Completions(llm)
             /\ got' = [op |-> "evaluate", path |-> e.review.path, raised |-> e.raised,
                        draft |-> given, review |-> e.review]
    /\ stage' = "evaluated"
    /\ before' = heap
    /\ UNCHANGED <<input_packet, gen_llm, heap, runVars, storeVars, given, instructions, first>>

\* GenerationCrew(llm_client).generate(input_packet)
CallGenerate ==
    /\ stage = "init"
    /\ \E llm \in BOOLEAN, reply \in DraftReplies :
         LET g == generate(input_packet, heap, llm, reply)
         IN  /\ gen_llm' = llm
             /\ replied' = IF llm THEN reply ELSE NoReply
             /\ completions' = completions + Completions(llm)
             /\ got' = [op |-> "generate", path |-> g.path, raised |-> FALSE,
                        draft |-> g.draft, review |-> NoReview]
             /\ heap' = g.heap
    /\ stage' = "generated"
    /\ before' = heap
    /\ UNCHANGED <<input_packet, eval_llm, runVars, storeVars, given, instructions, first>>

\* GenerationCrew(llm_client).revise(given, instructions, input_packet)
CallRevise ==
    /\ stage = "init"
    /\ \E llm \in BOOLEAN, reply \in DraftReplies, ins \in InstructionLists :
         LET r == revise(given, ins, input_packet, heap, llm, reply)
         IN  /\ gen_llm' = llm
             /\ replied' = IF llm THEN reply ELSE NoReply
             /\ completions' = completions + Completions(llm)
             /\ instructions' = ins
             /\ got' = [op |-> "revise", path |-> r.path, raised |-> r.raised,
                        draft |-> r.draft, review |-> NoReview]
             /\ heap' = r.heap
    /\ stage' = "revised"
    /\ before' = heap
    /\ UNCHANGED <<input_packet, eval_llm, runVars, storeVars, given, first>>

\* the same crew revises the draft it returned, with the same instructions
CallReviseAgain ==
    /\ stage = "revised"
    /\ ~got.raised
    /\ \E reply \in SecondDraftReplies :
         LET r == revise(got.draft, instructions, input_packet, heap, gen_llm, reply)
         IN  /\ got' = [op |-> "revise", path |-> r.path, raised |-> r.raised,
                        draft |-> r.draft, review |-> NoReview]
             /\ heap' = r.heap
    /\ given' = got.draft
    /\ first' = got
    /\ before' = heap
    /\ stage' = "revised_twice"
    /\ completions' = completions + Completions(gen_llm)
    /\ UNCHANGED <<input_packet, gen_llm, eval_llm, runVars, storeVars, instructions, replied>>

NextCrew ==
    \/ CallEvaluate
    \/ CallGenerate
    \/ CallRevise
    \/ CallReviseAgain

SpecCrew == InitCrew /\ [][NextCrew]_vars

\* --------------------------- concurrent runs against one FileRepository
\* Each worker executes SelfEvaluationPipeline.run with its own `state`; the
\* crews are taken by their outcome, a review that passes or fails.
InitStore ==
    /\ input_packet = Packet(<< <<"g1">> >>, <<>>, DEFAULT_MUST_INCLUDE, 80, <<"none">>)
    /\ max_iterations = MaxN
    /\ gen_llm = FALSE
    /\ eval_llm = FALSE
    /\ pc = "idle"
    /\ iteration = 0
    /\ history = <<>>
    /\ draft = NoDraft
    /\ heap = <<>>
    /\ final = NoFinal
    /\ status = "none"
    /\ result = NoFinal
    /\ error = "none"
    /\ runs = <<>>
    /\ finals = <<>>
    /\ ops = <<>>
    /\ stage = "idle"
    /\ given = NoDraft
    /\ instructions = <<>>
    /\ before = <<>>
    /\ got = NoCall
    /\ first = NoCall
    /\ replied = NoReply
    /\ completions = 0
    /\ now = 0
    /\ run_files = NoFiles
    /\ final_files = NoFiles
    /\ workers = [r \in Runs |-> Worker("GENERATING", 0, <<>>, "none")]

\* a step of run r alone: it writes its own state and nothing of the pipeline object
Step(r, w) ==
    /\ workers' = [workers EXCEPT ![r] = w]
    /\ UNCHANGED <<input_packet, gen_llm, eval_llm, heap, completions, runVars, crewVars>>

\* pipeline.py:32-40 in run r
WorkerGenerate(r) ==
    /\ workers[r].pc = "GENERATING"
    /\ Step(r, [workers[r] EXCEPT !.pc = LoopTest(0)])
    /\ UNCHANGED <<now, run_files, final_files>>

\* pipeline.py:41-57 in run r
WorkerEvaluate(r) ==
    /\ workers[r].pc = "EVALUATING"
    /\ \E pass \in BOOLEAN :
         LET w == workers[r]
             h == Append(w.history, [iteration |-> w.iteration, pass |-> pass])
         IN  Step(r, IF pass THEN Worker("VALIDATED", w.iteration, h, "validated")
                     ELSE Worker("REVISING", w.iteration, h, "none"))
    /\ UNCHANGED <<now, run_files, final_files>>

\* pipeline.py:62-76 in run r: revise, count, test the budget, fall back
WorkerRevise(r) ==
    /\ workers[r].pc = "REVISING"
    /\ LET w == workers[r]
       IN  Step(r, IF LoopTest(w.iteration + 1) = "EVALUATING"
                   THEN Worker("EVALUATING", w.iteration + 1, w.history, "none")
                   ELSE Worker("EXHAUSTED", w.iteration + 1, w.history,
                               "max_iterations_reached"))
    /\ UNCHANGED <<now, run_files, final_files>>

\* the file save_run writes for run r, and the file save_final writes
RunRecord(r) ==
    [owner |-> r, status |-> workers[r].status, history |-> workers[r].history]
FinalRecord(r) ==
    [owner |-> r, status |-> workers[r].status,
     history |-> << LastRecord(workers[r].history) >>]

\* repository.py:16-21 called by run r: the path is run_<second>.json, and
\* write_text replaces whatever file has that name
WorkerSaveRun(r) ==
    /\ workers[r].pc \in {"VALIDATED", "EXHAUSTED"}
    /\ run_files' = [run_files EXCEPT ![now] = RunRecord(r)]
    /\ Step(r, [workers[r] EXCEPT !.pc = "SAVE_FINAL"])
    /\ UNCHANGED <<now, final_files>>

\* repository.py:23-29 called by run r, then run returns
WorkerSaveFinal(r) ==
    /\ workers[r].pc = "SAVE_FINAL"
    /\ final_files' = [final_files EXCEPT ![now] = FinalRecord(r)]
    /\ Step(r, [workers[r] EXCEPT !.pc = "returned"])
    /\ UNCHANGED <<now, run_files>>

\* a second passes
Tick ==
    /\ now < MaxTicks
    /\ now' = now + 1
    /\ UNCHANGED <<input_packet, gen_llm, eval_llm, heap, completions, runVars, crewVars,
                   run_files, final_files, workers>>

NextStore ==
    \/ \E r \in Runs : WorkerGenerate(r)
    \/ \E r \in Runs : WorkerEvaluate(r)
    \/ \E r \in Runs : WorkerRevise(r)
    \/ \E r \in Runs : WorkerSaveRun(r)
    \/ \E r \in Runs : WorkerSaveFinal(r)
    \/ Tick

SpecStore == InitStore /\ [][NextStore]_vars

\* ------------------------------------------------------------------ claims
Last(q) == q[Len(q)]
Count(q, x) == Cardinality({i \in DOMAIN q : q[i] = x})
Crisis == Contains(input_packet.risk_flags, "crisis_language")

\* C1: for max_iterations = N >= 1 a run makes at most N revisions, and a run
\* whose every evaluation failed ends with status max_iterations_reached and
\* a history of exactly N + 1 records.
C1_ExhaustedHistoryLength ==
    (max_iterations >= 1 /\ pc = "EXHAUSTED") =>
        /\ Count(ops, "revise") <= max_iterations
        /\ status = "max_iterations_reached"
        /\ Len(history) = max_iterations + 1

\* C2: after an evaluation the run goes to VALIDATED on a pass, to EXHAUSTED
\* when the budget is used up, and otherwise revises and evaluates again: the
\* call before EXHAUSTED is an evaluate, never a revise, and every draft that
\* generate or revise produced has been evaluated when the run is terminal.
C2_TransitionRule ==
    /\ pc = "VALIDATED" => (Last(ops) = "evaluate" /\ Last(history).review.pass)
    /\ pc = "EXHAUSTED" => (Last(ops) = "evaluate" /\ ~Last(history).review.pass)
    /\ pc \in {"VALIDATED", "EXHAUSTED"} =>
           /\ Count(ops, "evaluate") = Count(ops, "revise") + 1
           /\ Last(history).draft = draft

\* what the run hands out in a terminal state
Outcome == IF pc = "returned" THEN result ELSE final

\* C3: in every terminal state the final output and review are the draft and
\* review of the last history record, the status is validated exactly when
\* that review passed and max_iterations_reached exactly when it did not.
C3_FinalIsLastRecord ==
    pc \in {"VALIDATED", "EXHAUSTED", "SAVE_FINAL", "returned"} =>
        /\ Outcome.final_output = Last(history).draft
        /\ Outcome.final_review = Last(history).review
        /\ Outcome.status = "validated" <=> Outcome.final_review.pass
        /\ Outcome.status = "max_iterations_reached" <=> ~Outcome.final_review.pass

\* C3 witness: a run returned after exhausting its budget over several records
C3_Witness ==
    /\ pc = "returned"
    /\ result.status = "max_iterations_reached"
    /\ Len(history) >= 2
    /\ history[1].draft # Last(history).draft

\* C4: with crisis_language among the risk flags, every Review that evaluate
\* returns, from the rubric or from the external judge, has a major issue and
\* pass = false.
C4_CrisisNeverPasses ==
    (stage = "evaluated" /\ ~got.raised /\ got.review.keys = ReviewKeys /\ Crisis) =>
        /\ got.review.major_issues # <<>>
        /\ ~got.review.pass

\* C5: a run with max_iterations >= 1 returns a Run Result also when save_run
\* or save_final fails; it never ends with a store call failed and no result.
C5_RunSurvivesStoreFailure ==
    max_iterations >= 1 =>
        ~(pc = "raised" /\ error \in {"OSError: save_run", "OSError: save_final"})

\* C6: whatever the backend does, generate, evaluate and revise return
\* without raising, every Review carries pass and revision_instructions, and
\* every Draft carries a summary and an action_plan.
C6_CrewsDegradeGracefully ==
    /\ error \notin {"evaluate", "revise", "KeyError: pass",
                     "KeyError: revision_instructions"}
    /\ \A i \in DOMAIN history :
           {"pass", "revision_instructions"} \subseteq history[i].review.keys
    /\ pc # "GENERATING" => {"summary", "action_plan"} \subseteq draft.present

\* C7: revise leaves the previous draft as it was: after the call every
\* field of the draft handed in, the success_metric of each action item
\* included, has the value it had before the call.
C7_ReviseLeavesPreviousDraft ==
    (stage \in {"revised", "revised_twice"} /\ ~got.raised) =>
        Deep(given, heap) = Deep(given, before)

\* both revise calls took the local merge with the add-metrics instruction
TwiceLocalAddMetrics ==
    /\ stage = "revised_twice"
    /\ instructions = <<AddMetricsInstruction>>
    /\ first.path = "local" /\ ~first.raised
    /\ got.path = "local" /\ ~got.raised

\* C8 as stated: revising the once-revised draft with the add-metrics
\* instruction yields the same Draft as revising once.
C8_ReviseIdempotent ==
    TwiceLocalAddMetrics => Deep(got.draft, heap) = Deep(first.draft, before)

\* C8 amended: revising the once-revised draft with the add-metrics
\* instruction yields the same action plan, topic and keys as revising once
\* (no metric is refilled); the summary gains one more revision marker.
C8_ReviseIdempotentOnPlan ==
    TwiceLocalAddMetrics =>
        /\ PlanOf(got.draft, heap) = PlanOf(first.draft, before)
        /\ got.draft.present = first.draft.present
        /\ got.draft.topic = first.draft.topic
        /\ got.draft.summary = Append(first.draft.summary, RevisionMarker)

\* C8 witness: the first call filled a missing metric next to a present one
C8_Witness ==
    /\ TwiceLocalAddMetrics
    /\ \E i \in DOMAIN PlanOf(got.draft, heap) :
           PlanOf(got.draft, heap)[i].success_metric = DefaultTrackingMetric
    /\ \E i \in DOMAIN PlanOf(got.draft, heap) :
           PlanOf(got.draft, heap)[i].success_metric = HeuristicMetric

LocalReviewReturned ==
    stage = "evaluated" /\ ~got.raised /\ got.review.path = "local"

\* C9: a Review of the local rubric has pass = true exactly when its
\* overall_score is at least the context's pass_threshold and it has no
\* major issue.
C9_PassDetermination ==
    LocalReviewReturned =>
        (got.review.pass <=>
            /\ got.review.overall_score >= input_packet.pass_threshold
            /\ got.review.major_issues = <<>>)

\* C9 witness: the score clears the threshold and a major issue fails the review
C9_Witness ==
    /\ LocalReviewReturned
    /\ got.review.overall_score >= input_packet.pass_threshold
    /\ got.review.major_issues # <<>>
    /\ ~got.review.pass

DelegatedDraftReturned ==
    stage \in {"generated", "revised"} /\ got.path = "llm" /\ ~got.raised

\* C11: a Draft that leaves generate or revise through the delegated path has
\* a non-empty action_plan whose every item has a non-empty action, rationale,
\* time_horizon and success_metric; a plan given as one text becomes one item
\* with that text as action and the default rationale, time horizon and
\* metric; an empty or missing plan becomes the one-item plan built from the
\* draft's topic.
C11_DelegatedPlanNormalized ==
    DelegatedDraftReturned =>
        LET sent == replied.value
            plan == PlanOf(got.draft, heap)
            noPlan == \/ "action_plan" \notin sent.present
                      \/ sent.ap.t = "null"
                      \/ sent.ap.items = <<>>
            topic == IF "topic" \in sent.present THEN sent.topic
                     ELSE <<"personal", "development">>
        IN  /\ "action_plan" \in got.draft.present
            /\ plan # <<>>
            /\ \A i \in DOMAIN plan :
                   /\ plan[i].action # <<>>
                   /\ plan[i].rationale # <<>>
                   /\ plan[i].time_horizon # <<>>
                   /\ plan[i].success_metric # <<>>
            /\ (~noPlan /\ sent.ap.t = "scalar" /\ sent.ap.items[1].t = "str"
                        /\ sent.ap.items[1].text # <<>>) =>
                   plan = << [action |-> sent.ap.items[1].text,
                              rationale |-> NormalizedRationale,
                              time_horizon |-> ThisWeek,
                              success_metric |-> NormalizedMetric] >>
            /\ noPlan =>
                   plan = << [action |-> <<"schedule", "block", "for", "make", "steady",
                                           "progress", "on">> \o topic,
                              rationale |-> HeuristicRationale,
                              time_horizon |-> ThisWeek,
                              success_metric |-> HeuristicMetric] >>

\* C11 witness: the backend's draft carried its plan as a single text
C11_Witness ==
    /\ DelegatedDraftReturned
    /\ "action_plan" \in replied.value.present
    /\ replied.value.ap.t = "scalar"
    /\ Len(PlanOf(got.draft, heap)) = 1

\* the judge call of a direct evaluate failed: complete() raised, or what it
\* returned is not JSON
JudgeCallFailed ==
    /\ stage = "evaluated"
    /\ eval_llm
    /\ (~replied.ok \/ ~replied.json)

\* C12: when the judge call fails inside evaluate, evaluate gives exactly what
\* the local rubric gives for the same draft and context (the rubric's Review,
\* with confidence 0.82), and the backend was invoked exactly once.
C12_JudgeFailureFallsBackOnce ==
    JudgeCallFailed =>
        /\ got.raised = LocalEvaluateRaises(given, heap, input_packet)
        /\ ~got.raised =>
              /\ got.review = LocalReview(given, heap, input_packet)
              /\ got.review.path = "local"
              /\ got.review.confidence = LocalConfidence
        /\ completions = 1

\* C12 witness: the backend raised and the rubric's review came back
C12_Witness ==
    /\ JudgeCallFailed
    /\ ~replied.ok
    /\ ~got.raised
    /\ got.review.confidence = LocalConfidence

\* run is over: it returned or an exception left it
RunOver == pc \in {"returned", "raised"}

\* C13: a run that reached a terminal status invokes save_run exactly once,
\* with the complete history and the terminal status, and then save_final
\* exactly once, with the final Draft and Review that run returns; neither is
\* invoked before the terminal status is decided, and the status handed to
\* save_run is the status of the returned Run Result.
C13_StoreCalledOncePerTerminalRun ==
    /\ status = "none" => (Count(ops, "save_run") = 0 /\ Count(ops, "save_final") = 0)
    /\ Count(ops, "save_run") <= 1
    /\ Count(ops, "save_final") <= Count(ops, "save_run")
    /\ \A i \in DOMAIN runs :
           /\ runs[i].history = history
           /\ runs[i].status = status
           /\ runs[i].status \in {"validated", "max_iterations_reached"}
    /\ (RunOver /\ status # "none") =>
           /\ Count(ops, "save_run") = 1
           /\ Count(ops, "save_final") = 1
           /\ SubSeq(ops, Len(ops) - 1, Len(ops)) = <<"save_run", "save_final">>
    /\ pc = "returned" =>
           /\ finals = <<result>>
           /\ Len(runs) = 1
           /\ runs[1].status = result.status

\* every evaluate call so far came back with a pass or fail outcome
PassFailOutcomes ==
    /\ Count(ops, "evaluate") = Len(history)
    /\ \A i \in DOMAIN history : "pass" \in history[i].review.keys

\* C14: for N >= 1 and every sequence of pass/fail evaluation outcomes, a run
\* calls generate exactly once and revise at most N times, makes no call
\* beyond the budget (so it cannot loop forever), and ends in VALIDATED or
\* EXHAUSTED having returned exactly one Run Result.
C14_RunTerminatesWithOneResult ==
    max_iterations >= 1 =>
        /\ pc # "GENERATING" => Count(ops, "generate") = 1
        /\ Count(ops, "revise") <= max_iterations
        /\ Count(ops, "evaluate") <= max_iterations
        /\ Len(ops) <= 2 * max_iterations + 3
        /\ (RunOver /\ PassFailOutcomes) =>
               /\ pc = "returned"
               /\ result.status \in {"validated", "max_iterations_reached"}
               /\ finals = <<result>>

\* a run whose crews have no backend
LocalOnly == ~gen_llm /\ ~eval_llm

\* C15: with local-only crews, a context without crisis_language, with the
\* default must-include set, pass_threshold <= 80 and persona goals, and a
\* budget N >= 1: the generated draft has one action item per goal, up to
\* three, each with the fixed rationale and a non-empty success metric; the
\* first evaluation passes with overall_score >= 80; the run returns status
\* validated at iteration 0 with a history of one record and no revise call.
C15_LocalRunValidatesAtOnce ==
    (/\ LocalOnly
     /\ max_iterations >= 1
     /\ ~Crisis
     /\ input_packet.must_include = DEFAULT_MUST_INCLUDE
     /\ input_packet.pass_threshold <= 80
     /\ input_packet.goals # <<>>) =>
        /\ pc = "EVALUATING" =>
               LET plan == PlanOf(draft, heap)
               IN  /\ Len(plan) = Min(PlanGoalLimit, Len(input_packet.goals))
                   /\ \A i \in DOMAIN plan :
                          /\ plan[i].rationale = HeuristicRationale
                          /\ plan[i].success_metric # <<>>
        /\ pc \notin {"GENERATING", "EVALUATING"} =>
               /\ Len(history) = 1
               /\ history[1].iteration = 0
               /\ history[1].review.pass
               /\ history[1].review.overall_score >= 80
               /\ status = "validated"
               /\ iteration = 0
               /\ Count(ops, "revise") = 0
        /\ RunOver => (pc = "returned" /\ result.status = "validated")

\* C16: with local-only crews, crisis_language among the risk flags and a
\* budget N >= 1: every Review in the history fails and carries the
\* crisis-escalation major issue; the summary of every revised draft contains
\* the summary before it, so relevance never drops; and the run ends with
\* status max_iterations_reached, exactly when the budget is used up.
C16_CrisisRunExhaustsBudget ==
    (LocalOnly /\ Crisis /\ max_iterations >= 1) =>
        /\ \A i \in DOMAIN history :
               /\ ~history[i].review.pass
               /\ MajorCrisis \in Range(history[i].review.major_issues)
        /\ \A i \in DOMAIN history :
               i > 1 =>
                   /\ ContainsText(history[i].draft.summary, history[i - 1].draft.summary)
                   /\ history[i].review.criterion_scores.relevance
                          >= history[i - 1].review.criterion_scores.relevance
        /\ history # <<>> => ContainsText(draft.summary, Last(history).draft.summary)
        /\ status # "validated"
        /\ status = "max_iterations_reached" <=>
               (iteration = max_iterations /\ pc \notin {"FALLBACK", "raised"})
        /\ RunOver => (pc = "returned" /\ result.status = "max_iterations_reached")

\* a direct call of generate, revise or evaluate has come back
DirectCallReturned == stage \in {"generated", "revised", "evaluated"}

\* C17: a backend reply that is valid JSON, fenced or not, is taken as the
\* delegated result by generate, revise and evaluate alike, with no fallback
\* to the local path; only a reply that cannot be parsed is a delegation
\* failure.
C17_FencedJsonAccepted ==
    DirectCallReturned =>
        /\ (replied.ok /\ replied.json) =>
               /\ got.path = "llm"
               /\ stage = "evaluated" => got.review = replied.value
        /\ ((gen_llm \/ eval_llm) /\ ~(replied.ok /\ replied.json) /\ ~got.raised) =>
               got.path = "local"

\* the revise calls that returned a draft
CompletedRevisions ==
    Count(ops, "revise") - (IF error = "revise" THEN 1 ELSE 0)

\* what C18 says of every state of a run with a budget N >= 1
CounterInvariant ==
    max_iterations >= 1 =>
        /\ pc = "GENERATING" => iteration = 0
        /\ iteration = CompletedRevisions
        /\ iteration <= max_iterations
        /\ \A k \in DOMAIN history : history[k].iteration = k - 1
        /\ pc = "VALIDATED" => iteration = Last(history).iteration
        /\ pc = "EXHAUSTED" => iteration = Last(history).iteration

\* what C18 says of every step: an evaluation leaves the counter alone and the
\* history only grows at its end
CounterStep ==
    /\ Count(ops', "evaluate") > Count(ops, "evaluate") => iteration' = iteration
    /\ Len(history') >= Len(history)
    /\ SubSeq(history', 1, Len(history)) = history

\* C18: the iteration counter starts at 0, equals the number of completed
\* revision cycles, is incremented neither by a passing evaluation nor by the
\* failed evaluation that exhausts the budget (in a terminal state it is still
\* the index of the last evaluated draft), and never exceeds max_iterations;
\* the history is append-only and its k-th record (0-based) has index k.
C18_CounterCountsRevisions == []CounterInvariant /\ [][CounterStep]_vars

\* C19: a Review of the local rubric has exactly these issues and
\* instructions, in this order: a major issue and the add-metrics instruction
\* iff actionability < 75; a minor issue and the personalize instruction iff
\* personalization < 70; a major issue and the crisis-escalation instruction
\* iff the risk flags include crisis_language, whatever the safety score.  A
\* minor issue alone never makes pass false.
C19_IssuesAndInstructions ==
    LocalReviewReturned =>
        LET review == got.review
            lowActionability == review.criterion_scores.actionability < 75
            lowPersonalization == review.criterion_scores.personalization < 70
        IN  /\ review.major_issues =
                   (IF lowActionability THEN <<MajorActionability>> ELSE <<>>)
                   \o (IF Crisis THEN <<MajorCrisis>> ELSE <<>>)
            /\ review.minor_issues =
                   IF lowPersonalization THEN <<MinorPersonalization>> ELSE <<>>
            /\ review.revision_instructions =
                   (IF lowActionability THEN <<AddMetricsInstruction>> ELSE <<>>)
                   \o (IF lowPersonalization THEN <<PersonalizeInstruction>> ELSE <<>>)
                   \o (IF Crisis THEN <<CrisisInstruction>> ELSE <<>>)
            /\ (review.major_issues = <<>>
                  /\ review.overall_score >= input_packet.pass_threshold) => review.pass

\* C19 witness: a review with the minor issue alone, which passes
C19_Witness ==
    /\ LocalReviewReturned
    /\ got.review.minor_issues = <<MinorPersonalization>>
    /\ got.review.major_issues = <<>>
    /\ got.review.revision_instructions = <<PersonalizeInstruction>>
    /\ got.review.pass

\* C19 witness of the other two findings together, in order
C19_WitnessMajors ==
    /\ LocalReviewReturned
    /\ got.review.major_issues = <<MajorActionability, MajorCrisis>>
    /\ got.review.revision_instructions
           = <<AddMetricsInstruction, PersonalizeInstruction, CrisisInstruction>>
    /\ got.review.criterion_scores.safety = 60

\* the action items of the evaluated draft, and those with a success metric
EvaluatedItems == Len(PlanOf(given, heap))
EvaluatedItemsWithMetric ==
    Cardinality({i \in DOMAIN PlanOf(given, heap) :
                    PlanOf(given, heap)[i].success_metric # <<>>})

\* C20 as stated: the local actionability score is 30 for an empty action
\* plan and otherwise min(95, 60 + 35 * m / n), for n action items of which m
\* have a non-empty success metric (compared after multiplying by n); it is
\* 95 exactly when every item has a metric, and below 75 whenever fewer than
\* 3 in 7 of the items have one.
C20_ActionabilityExactFraction ==
    LocalReviewReturned =>
        LET n == EvaluatedItems
            m == EvaluatedItemsWithMetric
            score == got.review.criterion_scores.actionability
        IN  /\ n = 0 => score = 30
            /\ n > 0 =>
                   /\ n * score = Min(95 * n, 60 * n + 35 * m)
                   /\ score = 95 <=> m = n
                   /\ 7 * m < 3 * n => score < 75

\* C20 amended: as above, with 35 * m / n cut down to a whole number before
\* it is added: the score is min(95, 60 + floor(35 * m / n)).
C20_ActionabilityFloored ==
    LocalReviewReturned =>
        LET n == EvaluatedItems
            m == EvaluatedItemsWithMetric
            score == got.review.criterion_scores.actionability
        IN  /\ n = 0 => score = 30
            /\ n > 0 =>
                   /\ score = Min(95, 60 + ((35 * m) \div n))
                   /\ score = 95 <=> m = n
                   /\ 7 * m < 3 * n => score < 75

\* C20 witness: some but not all items have a metric, and 35 * m / n is not whole
C20_Witness ==
    /\ LocalReviewReturned
    /\ EvaluatedItemsWithMetric > 0
    /\ EvaluatedItemsWithMetric < EvaluatedItems
    /\ (35 * EvaluatedItemsWithMetric) % EvaluatedItems # 0
    /\ got.review.criterion_scores.actionability < 95

\* C21: for every max_iterations value, 0 and negative ones included, run
\* reads the last history record only when the history is not empty: it does
\* not fail on an empty history but returns a Run Result with a final draft
\* and review, and the generated draft has been evaluated at least once
\* before any terminal state.
C21_NoFailureOnEmptyHistory ==
    /\ error # "IndexError: history"
    /\ pc \in {"VALIDATED", "EXHAUSTED", "SAVE_FINAL", "returned"} =>
           /\ Count(ops, "evaluate") >= 1
           /\ history # <<>>
    /\ (RunOver /\ max_iterations <= 0) =>
           /\ pc = "returned"
           /\ result.status \in {"validated", "max_iterations_reached"}
           /\ result.final_output # NoDraft
           /\ result.final_review # NoReview

\* what a Review says of a draft, apart from its instructions and confidence
Verdict(review) ==
    [criterion_scores |-> review.criterion_scores,
     overall_score |-> review.overall_score,
     major_issues |-> review.major_issues,
     minor_issues |-> review.minor_issues,
     pass |-> review.pass]

\* C22: in a local-only run every Review of the history has the criterion
\* scores, overall score, issues and pass flag of the first one, and each
\* revised draft differs from the draft before it in the summary only; so a
\* run that ends with a status validated at iteration 0 or reached
\* max_iterations_reached, and never validates at an iteration k >= 1.
C22_LocalReviewsNeverChange ==
    LocalOnly =>
        /\ \A i \in DOMAIN history :
               /\ Verdict(history[i].review) = Verdict(history[1].review)
               /\ i > 1 =>
                      /\ history[i].draft.summary # history[i - 1].draft.summary
                      /\ [Deep(history[i].draft, heap) EXCEPT !.summary = <<>>]
                             = [Deep(history[i - 1].draft, heap) EXCEPT !.summary = <<>>]
        /\ status = "validated" =>
               (iteration = 0 /\ Len(history) = 1 /\ Last(history).iteration = 0)
        /\ status \in {"none", "validated", "max_iterations_reached"}
        /\ pc = "returned" => result.status \in {"validated", "max_iterations_reached"}

\* C22 witness: a local-only run without crisis flag failed on its score
\* alone, revised, failed again the same way and returned
C22_Witness ==
    /\ LocalOnly
    /\ ~Crisis
    /\ pc = "returned"
    /\ Len(history) >= 2
    /\ history[2].draft.summary # history[1].draft.summary
    /\ result.status = "max_iterations_reached"

\* the files present in a directory
Present(files) == {s \in Stamps : files[s] # Absent}

\* the runs whose save_run, and whose save_final, has returned
SavedRun == {r \in Runs : workers[r].pc \in {"SAVE_FINAL", "returned"}}
Completed == {r \in Runs : workers[r].pc = "returned"}

\* every stored record is there: k save calls left k files, each run's own
RecordsKept ==
    /\ Cardinality(Present(run_files)) = Cardinality(SavedRun)
    /\ Cardinality(Present(final_files)) = Cardinality(Completed)
    /\ \A r \in SavedRun : \E s \in Stamps : run_files[s] = RunRecord(r)
    /\ \A r \in Completed : \E s \in Stamps : final_files[s] = FinalRecord(r)

\* a step changes the history, counter and status of one run at most
OwnState ==
    \A r, q \in Runs : (workers'[r] # workers[r] /\ q # r) => workers'[q] = workers[q]

\* C23: runs executing concurrently against one FileRepository do not
\* interfere: each owns its history and counter, and every completed run
\* leaves its own run file and its own final file, so k completed runs yield
\* k run files and k final files, whatever the interleaving of the save calls
\* and however close in time the runs finish.
C23_ConcurrentRunsKeepTheirRecords == []RecordsKept /\ [][OwnState]_vars

====
